---- MODULE Spec2Model ----
(***************************************************************************)
(* A model of the aperture proxy (proxy/proxy.go): the request handler     *)
(* ServeHTTP with its collaborators (authenticator, freebie database,      *)
(* static file server, reverse proxy backend) and the reconfiguration      *)
(* entry point UpdateServices, under concurrently running requests.        *)
(***************************************************************************)
EXTENDS Integers, Sequences, FiniteSets, TLC

(***************************************************************************)
(* Bounds of the model.                                                    *)
(***************************************************************************)
\* unauthenticated requests to freebie services accepted over a whole
\* behaviour (the other requests leave nothing behind and are not counted)
MaxAnon == 2
\* freebies a LimitedFree service grants per remote IP (its configuration)
FreebieCount == 1

(***************************************************************************)
(* Program constants.                                                      *)
(***************************************************************************)
StatusOK == 200
StatusPaymentRequired == 402
StatusInternalServerError == 500
\* the reverse proxy's default error handler answers a failed round trip
StatusBadGateway == 502
\* the static server of New() without serveStatic: http.NotFoundHandler()
StatusNotFound == 404
\* no status written (yet)
NoStatus == 0

hdrContentType == "Content-Type"
hdrTypeGrpc == "application/grpc"

(***************************************************************************)
(* Strings that are matched or compared by content are sequences of        *)
(* characters; header values and names are opaque strings.                 *)
(***************************************************************************)
Hosts == { <<"a">>, <<"b">>, <<"c">>, <<"x", "a">> }
Paths == { <<"/">>, <<"/", "s">> }
Methods == { "GET", "OPTIONS" }
RemoteIPs == { "ip1", "ip2" }
\* the Content-Type header of a request; "" is an absent header
ContentTypes == { "", "application/json", "application/grpc+proto" }
\* the credential a request presents in its Authorization header; "" is none
Credentials == { "", "valid" }

\* the requests a client can send
Inputs ==
    [ method : Methods, host : Hosts, path : Paths, ct : ContentTypes,
      cred : Credentials, ip : RemoteIPs ]

\* the requests of SpecUpd
UpdInputs == { in \in Inputs : in.ct = "" /\ in.ip = "ip1" }

\* the requests that run concurrently with each other in SpecConc
ConcInputs ==
    { in \in Inputs : in.host = << "a" >> /\ in.path = << "/" >> /\ in.ct = ""
                      /\ in.ip = "ip1" }

(***************************************************************************)
(* strings.HasPrefix(r.Header.Get(hdrContentType), hdrTypeGrpc), on the    *)
(* content types of the model.                                             *)
(***************************************************************************)
HasPrefixGrpc(ct) == ct \in { "application/grpc", "application/grpc+proto" }

(***************************************************************************)
(* Regular expressions.  The patterns of the model are of the shape        *)
(* ^?literal$?, held as [start, lit, end]; regexp.MatchString finds the    *)
(* literal anywhere in the string unless an anchor pins it.                *)
(***************************************************************************)
Re(start, lit, end) == [start |-> start, lit |-> lit, end |-> end]

EmptyRe == Re(FALSE, << >>, FALSE)

MatchAt(re, s, i) ==
    /\ i + Len(re.lit) - 1 <= Len(s)
    /\ \A k \in 1..Len(re.lit) : s[i + k - 1] = re.lit[k]
    /\ re.start => i = 1
    /\ re.end => i + Len(re.lit) - 1 = Len(s)

MatchString(re, s) == \E i \in 1..(Len(s) + 1) : MatchAt(re, s, i)

(***************************************************************************)
(* TLS certificate files of the model: TLSCertPath "" means no             *)
(* certificate is configured.                                              *)
(***************************************************************************)
\* ioutil.ReadFile succeeds
FileReadable(path) == path \in { "good.pem", "bad.pem" }
\* AppendCertsFromPEM finds a certificate in the file
FileHasCert(path) == path = "good.pem"

(***************************************************************************)
(* Services and the service sets UpdateServices can be called with.        *)
(***************************************************************************)
AuthLevels == { "off", "on", "freebie" }

Service(name, host, path, address, level, cert, prepOk) ==
    [ Name |-> name, HostRegexp |-> host, PathRegexp |-> path,
      Address |-> address, Protocol |-> "https", Auth |-> level,
      Price |-> 1, TLSCertPath |-> cert, prepareOk |-> prepOk,
      Headers |-> ("X-Backend" :> name) ]

ServiceSets ==
    << \* 1: the set the proxy is built with:
       \*    free: ^a$ and any path, paid: a and ^/s, open: ^b$ and ^/s
       << Service("free", Re(TRUE, <<"a">>, TRUE), EmptyRe,
                  "free:1", "freebie", "good.pem", TRUE),
          Service("paid", Re(FALSE, <<"a">>, FALSE), Re(TRUE, <<"/", "s">>, FALSE),
                  "paid:1", "on", "", TRUE),
          Service("open", Re(TRUE, <<"b">>, TRUE), Re(TRUE, <<"/", "s">>, FALSE),
                  "open:1", "off", "", TRUE) >>,
       \* 2: a different set: everything on host a is open
       << Service("open2", Re(TRUE, <<"a">>, TRUE), EmptyRe,
                  "open:2", "off", "good.pem", TRUE) >>,
       \* 3: a certificate file that cannot be read
       << Service("open2", Re(TRUE, <<"a">>, TRUE), EmptyRe,
                  "open:2", "off", "good.pem", TRUE),
          Service("paid", Re(TRUE, <<"b">>, TRUE), EmptyRe,
                  "paid:3", "on", "missing.pem", TRUE) >>,
       \* 4: a certificate file without a certificate
       << Service("paid", Re(TRUE, <<"b">>, TRUE), EmptyRe,
                  "paid:4", "on", "bad.pem", TRUE) >>,
       \* 5: a service whose preparation fails
       << Service("paid", Re(TRUE, <<"b">>, TRUE), EmptyRe,
                  "paid:5", "on", "", FALSE) >> >>

SetIds == 1..Len(ServiceSets)
\* the set New() is called with
InitialSet == 1

ServiceNames == UNION { { ServiceSets[i][j].Name : j \in 1..Len(ServiceSets[i]) } : i \in SetIds }

\* the result of matchService when no service matches: (nil, false)
NoService == [ Name |-> "" ]

(***************************************************************************)
(* http.Header: a map from canonical header names to lists of values.      *)
(* Set, Add, Get and Del canonicalise the name they are given              *)
(* (textproto.CanonicalMIMEHeaderKey); the names of the model are          *)
(* canonical already, except the two spellings of WWW-Authenticate.        *)
(***************************************************************************)
CanonicalKey(name) ==
    IF name \in { "WWW-Authenticate", "www-authenticate" }
    THEN "Www-Authenticate" ELSE name

EmptyHeader == [ n \in {} |-> << >> ]

HSet(h, name, v) ==
    [ n \in DOMAIN h \cup { CanonicalKey(name) } |->
        IF n = CanonicalKey(name) THEN << v >> ELSE h[n] ]

HAdd(h, name, v) ==
    [ n \in DOMAIN h \cup { CanonicalKey(name) } |->
        IF n = CanonicalKey(name)
        THEN (IF n \in DOMAIN h THEN Append(h[n], v) ELSE << v >>)
        ELSE h[n] ]

HDel(h, name) == [ n \in DOMAIN h \ { CanonicalKey(name) } |-> h[n] ]

HGet(h, name) ==
    IF CanonicalKey(name) \in DOMAIN h /\ Len(h[CanonicalKey(name)]) > 0
    THEN h[CanonicalKey(name)][1] ELSE ""

\* all values of a header, the empty list when it is absent
HValues(h, name) ==
    IF CanonicalKey(name) \in DOMAIN h THEN h[CanonicalKey(name)] ELSE << >>

(***************************************************************************)
(* addCorsHeaders: adds the four CORS header fields to the header map it   *)
(* is handed.                                                              *)
(***************************************************************************)
CorsNames ==
    { "Access-Control-Allow-Origin", "Access-Control-Allow-Methods",
      "Access-Control-Expose-Headers", "Access-Control-Allow-Headers" }

addCorsHeaders(header) ==
    HAdd(HAdd(HAdd(HAdd(header,
        "Access-Control-Allow-Origin", "*"),
        "Access-Control-Allow-Methods", "GET, POST, OPTIONS"),
        "Access-Control-Expose-Headers", "WWW-Authenticate"),
        "Access-Control-Allow-Headers",
        "Authorization, Grpc-Metadata-macaroon, WWW-Authenticate")

\* the CORS header fields are all present in a header map
HasCors(h) == \A n \in CorsNames : HValues(h, n) # << >>

(***************************************************************************)
(* The response writer of a request: the header map, the status written    *)
(* by WriteHeader (NoStatus before) and the body, a list of the pieces     *)
(* written.                                                                *)
(***************************************************************************)
NewWriter == [ hdr |-> EmptyHeader, status |-> NoStatus, body |-> << >> ]

\* fmt.Fprintln(w, text): the text and a newline
Fprintln(text) == (IF text = "" THEN << >> ELSE << text >>) \o << "\n" >>

\* http.Error(w, error, code)
httpError(w, error, code) ==
    [ hdr |-> HSet(HSet(HDel(w.hdr, "Content-Length"),
                      "Content-Type", "text/plain; charset=utf-8"),
                      "X-Content-Type-Options", "nosniff"),
      status |-> code,
      body |-> w.body \o Fprintln(error) ]

\* strconv.Itoa(int(codes.Internal))
GrpcStatusInternal == "13"

(***************************************************************************)
(* sendDirectResponse: a gRPC client gets the error in header fields and   *)
(* no body, any other client a plain text body.                            *)
(***************************************************************************)
\* a slip: the client's content type is not looked at, every client is
\* answered in plain text
sendDirectResponsePlain(w, rHeader, statusCode, errInfo) ==
    httpError(w, errInfo, statusCode)

sendDirectResponse(w, rHeader, statusCode, errInfo) ==
    IF HasPrefixGrpc(HGet(rHeader, hdrContentType))
    THEN [ hdr |-> HSet(HSet(w.hdr, "Grpc-Status", GrpcStatusInternal),
                        "Grpc-Message", errInfo),
           status |-> statusCode,
           body |-> w.body ]
    ELSE httpError(w, errInfo, statusCode)

(***************************************************************************)
(* matchService: the first service, in the order of the list, whose host  *)
(* expression matches the request host and whose path expression is empty  *)
(* or matches the request path.                                            *)
(***************************************************************************)
\* a slip: the path expression is not looked at
serviceMatchesHostOnly(service, host, path) ==
    MatchString(service.HostRegexp, host)

serviceMatches(service, host, path) ==
    /\ MatchString(service.HostRegexp, host)
    /\ \/ service.PathRegexp = EmptyRe
       \/ MatchString(service.PathRegexp, path)

RECURSIVE matchFrom(_, _, _, _)
matchFrom(services, i, host, path) ==
    IF i > Len(services) THEN 0
    ELSE IF serviceMatches(services[i], host, path) THEN i
    ELSE matchFrom(services, i + 1, host, path)

\* a slip: the loop does not return at the first match, the last match wins
matchIndexLast(host, path, services) ==
    LET M == { j \in 1..Len(services) : serviceMatches(services[j], host, path) }
    IN  IF M = {} THEN 0 ELSE CHOOSE j \in M : \A k \in M : k <= j

\* the index of the matched service in the list, 0 for (nil, false)
matchIndex(host, path, services) == matchFrom(services, 1, host, path)

matchService(host, path, services) ==
    IF matchIndex(host, path, services) = 0 THEN NoService
    ELSE services[matchIndex(host, path, services)]

(***************************************************************************)
(* certPool: reads the certificate of every service that configures one;   *)
(* the result is the set of files in the pool, or an error.                *)
(***************************************************************************)
RECURSIVE certPoolFrom(_, _, _)
certPoolFrom(services, i, cp) ==
    IF i > Len(services) THEN [ err |-> FALSE, pool |-> cp ]
    ELSE IF services[i].TLSCertPath = ""
         THEN certPoolFrom(services, i + 1, cp)
    ELSE IF ~FileReadable(services[i].TLSCertPath)
         THEN [ err |-> TRUE, pool |-> {} ]
    ELSE IF ~FileHasCert(services[i].TLSCertPath)
         THEN [ err |-> TRUE, pool |-> {} ]
    ELSE certPoolFrom(services, i + 1, cp \cup { services[i].TLSCertPath })

\* a slip: a certificate file that cannot be read or decoded is skipped
certPoolSkipBad(services) ==
    [ err |-> FALSE,
      pool |-> { services[i].TLSCertPath : i \in
                   { j \in 1..Len(services) :
                       /\ services[j].TLSCertPath # ""
                       /\ FileReadable(services[j].TLSCertPath)
                       /\ FileHasCert(services[j].TLSCertPath) } } ]

certPool(services) == certPoolFrom(services, 1, {})

\* prepareServices(services) returns an error
prepareServicesFails(services) ==
    \E i \in 1..Len(services) : ~services[i].prepareOk

(***************************************************************************)
(* The collaborators of the proxy.                                         *)
(***************************************************************************)
\* Service.AuthRequired(r): the auth level of the service for the request
AuthRequired(service, path) == service.Auth

\* authenticator.Accept(&r.Header, name): the credential presented is valid
Accept(rHeader, name) == HGet(rHeader, "Authorization") = "valid"

(***************************************************************************)
(* authenticator.FreshChallengeHeader(r, name, price): an error, or a      *)
(* header map.  The map may hold one value or several for a name, or an    *)
(* empty list, and it may be the request's own header map with the         *)
(* challenge set in it.                                                    *)
(***************************************************************************)
FreshChallengeHeader(rHeader, name, price) ==
    { [ err |-> TRUE, header |-> EmptyHeader ],
      [ err |-> FALSE, header |-> ("WWW-Authenticate" :> << "chal1" >>) ],
      [ err |-> FALSE, header |-> ("WWW-Authenticate" :> << "chal1", "chal2" >>) ],
      [ err |-> FALSE, header |-> ("WWW-Authenticate" :> << >>) ],
      [ err |-> FALSE, header |-> HSet(rHeader, "WWW-Authenticate", "chal1") ] }

\* the outcome of a request that has not asked for a challenge
NoChallenge == [ err |-> FALSE, header |-> EmptyHeader ]

\* freebieDb.CanPass(r, remoteIP), when it returns no error
CanPass(count) == count < FreebieCount

\* freebieDb.TallyFreebie(r, remoteIP), when it returns no error
TallyFreebie(count) == count + 1

(***************************************************************************)
(* The static file server: a 404 answer, or the file when static files     *)
(* are served and the file exists.                                         *)
(***************************************************************************)
staticServer(w, found) ==
    IF found
    THEN [ hdr |-> HSet(w.hdr, "Content-Type", "text/html"),
           status |-> StatusOK, body |-> w.body \o << "file" >> ]
    ELSE httpError(w, "404 page not found", StatusNotFound)

(***************************************************************************)
(* The part of ReverseProxy.ServeHTTP after the director: the round trip   *)
(* to the backend.  A response of the backend, whatever its status, goes   *)
(* through ModifyResponse and is copied to the client; a failed round      *)
(* trip is answered by the default error handler.                          *)
(***************************************************************************)
BackendOutcomes == { "ok", "error", "unreachable" }

roundTrip(w, outcome) ==
    IF outcome = "unreachable"
    THEN [ hdr |-> w.hdr, status |-> StatusBadGateway, body |-> w.body ]
    ELSE [ hdr |-> addCorsHeaders(HSet(w.hdr, "Content-Type", "application/json")),
           status |-> IF outcome = "ok" THEN StatusOK
                      ELSE StatusInternalServerError,
           body |-> w.body \o << "backend" >> ]

(***************************************************************************)
(* The switch on the auth level in ServeHTTP: where the request goes       *)
(* after the authenticator was asked (it is not asked for level off).      *)
(***************************************************************************)
needsAccept(level) == level \in { "on", "freebie" }

\* a slip: the freebie counter is consulted before the credential counts
authNextQuotaFirst(level, accepted) ==
    CASE level = "on" -> IF accepted THEN "forward" ELSE "challenge"
      [] level = "freebie" -> "canpass"
      [] OTHER -> "forward"

\* a slip: a service without auth is treated like a paid one
authNextAlwaysAuth(level, accepted) ==
    CASE level = "freebie" -> IF accepted THEN "forward" ELSE "canpass"
      [] OTHER -> IF accepted THEN "forward" ELSE "challenge"

\* a slip: a paid service forwards whatever the authenticator answers
authNextPaidOpen(level, accepted) ==
    CASE level = "freebie" -> IF accepted THEN "forward" ELSE "canpass"
      [] OTHER -> "forward"

authNext(level, accepted) ==
    CASE level = "on" -> IF accepted THEN "forward" ELSE "challenge"
      [] level = "freebie" -> IF accepted THEN "forward" ELSE "canpass"
      [] OTHER -> "forward"

\* a slip: the answer of CanPass is not looked at
canPassNextIgnored(ok) == "tally"

\* after CanPass returned ok without an error
canPassNext(ok) == IF ok THEN "tally" ELSE "challenge"

(***************************************************************************)
(* The loop of handlePaymentRequired over the challenge header map: for    *)
(* every name the first value is Set and the others are Added.  value[0]   *)
(* panics on an empty list.  Two names with one canonical form overwrite   *)
(* each other in the order of the map iteration, which is not fixed: pick  *)
(* names for each canonical key the name that is iterated last.            *)
(***************************************************************************)
challengeKeys(header) == { CanonicalKey(n) : n \in DOMAIN header }

challengePicks(header) ==
    { pick \in [ challengeKeys(header) -> DOMAIN header ] :
        \A k \in challengeKeys(header) : CanonicalKey(pick[k]) = k }

challengePanics(header) == \E n \in DOMAIN header : Len(header[n]) = 0

mergeChallenge(wHdr, header, pick) ==
    [ k \in DOMAIN wHdr \cup challengeKeys(header) |->
        IF k \in challengeKeys(header) THEN header[pick[k]] ELSE wHdr[k] ]

(***************************************************************************)
(* handlePaymentRequired, after addCorsHeaders(r.Header): the response     *)
(* for an outcome of FreshChallengeHeader.  panicked: the handler panics   *)
(* and writes nothing.  direct: the status code and the message it passes  *)
(* to sendDirectResponse.                                                  *)
(***************************************************************************)
\* the arguments of a call of sendDirectResponse; NoDirect: it was not called
Direct(statusCode, errInfo) == [ code |-> statusCode, msg |-> errInfo ]
NoDirect == Direct(NoStatus, "")

\* a slip: the error of FreshChallengeHeader is not looked at
handlePaymentRequiredNoErr(w, rHeader, outcome, pick) ==
    IF challengePanics(outcome.header)
    THEN [ panicked |-> TRUE, direct |-> NoDirect, w |-> w ]
    ELSE [ panicked |-> FALSE,
           direct |-> Direct(StatusPaymentRequired, "payment required"),
           w |-> sendDirectResponse(
                    [ w EXCEPT !.hdr = mergeChallenge(w.hdr, outcome.header, pick) ],
                    rHeader, StatusPaymentRequired, "payment required") ]

handlePaymentRequired(w, rHeader, outcome, pick) ==
    IF outcome.err
    THEN [ panicked |-> FALSE,
           direct |-> Direct(StatusInternalServerError, "challenge failure"),
           w |-> sendDirectResponse(w, rHeader, StatusInternalServerError,
                                    "challenge failure") ]
    ELSE IF challengePanics(outcome.header)
    THEN [ panicked |-> TRUE, direct |-> NoDirect, w |-> w ]
    ELSE [ panicked |-> FALSE,
           direct |-> Direct(StatusPaymentRequired, "payment required"),
           w |-> sendDirectResponse(
                    [ w EXCEPT !.hdr = mergeChallenge(w.hdr, outcome.header, pick) ],
                    rHeader, StatusPaymentRequired, "payment required") ]

(***************************************************************************)
(* director: matches the request on the services again and, when it        *)
(* matches, rewrites the outgoing request: Host and URL.Host become the     *)
(* address of the target, URL.Scheme its protocol, and the configured       *)
(* header fields of the target are added.  (The credential, when there is   *)
(* one, is written back by the lsat package in its default format; that     *)
(* leaves the header names of the model as they are.)                       *)
(***************************************************************************)
RECURSIVE addHeaders(_, _, _)
addHeaders(h, headers, names) ==
    IF names = {} THEN h
    ELSE LET name == CHOOSE n \in names : TRUE
         IN  addHeaders(HAdd(h, name, headers[name]), headers, names \ { name })

\* the outgoing request before the director has run
NoRewrite ==
    [ rewritten |-> FALSE, Host |-> "", Scheme |-> "", Header |-> EmptyHeader ]

director(host, path, header, services) ==
    LET target == matchService(host, path, services)
    IN  IF target = NoService
        THEN [ NoRewrite EXCEPT !.Header = header ]
        ELSE [ rewritten |-> TRUE, Host |-> target.Address,
               Scheme |-> target.Protocol,
               Header |-> addHeaders(header, target.Headers, DOMAIN target.Headers) ]

(***************************************************************************)
(* State.                                                                  *)
(***************************************************************************)
VARIABLES
    services,       \* p.services: the service set (an index of ServiceSets)
    proxyBackend,   \* p.proxyBackend: the service set its transport is built from
    freebieDb,      \* the freebie counters, per service name and remote IP
    reqs,           \* the requests in flight, one per handler goroutine
    installed,      \* the set of the last UpdateServices that returned nil
                    \* (a request notes in instAtStart the set installed when
                    \* it was accepted, in updated that one was installed since)
    anonCount,      \* per remote IP: unauthenticated requests to freebie services
    quotaErr,       \* per remote IP: a freebie database call returned an error
    lastErr         \* what a caller that keeps the result of UpdateServices
                    \* holds: the set its last call returned an error for,
                    \* 0 after nil (and before the first call)

vars == << services, proxyBackend, freebieDb, reqs, installed,
           anonCount, quotaErr, lastErr >>

\* the goroutines that run ServeHTTP
Slots == { 1, 2 }

Idle ==
    [ pc |-> "idle", Method |-> "", Host |-> << >>, Path |-> << >>,
      Header |-> EmptyHeader, RemoteIP |-> "",
      w |-> NewWriter, direct |-> NoDirect,
      target |-> NoService, regSeen |-> 0, instAtStart |-> 0, updated |-> FALSE,
      authLevel |-> "", accept |-> "-", canPass |-> "-", tally |-> "-",
      chal |-> NoChallenge,
      backendSeen |-> 0, dirSeen |-> 0, dirTarget |-> NoService,
      out |-> NoRewrite,
      ord |-> 0,
      nMatch |-> 0, nAccept |-> 0, nCanPass |-> 0, nTally |-> 0, nFresh |-> 0,
      nStatic |-> 0, nBackend |-> 0 ]

RECURSIVE sumOver(_, _)
sumOver(f, S) ==
    IF S = {} THEN 0
    ELSE LET x == CHOOSE y \in S : TRUE IN f[x] + sumOver(f, S \ { x })

anonTotal == sumOver(anonCount, RemoteIPs)

requestHeader(ct, cred) ==
    LET h1 == IF ct = "" THEN EmptyHeader ELSE HSet(EmptyHeader, hdrContentType, ct)
    IN  IF cred = "" THEN h1 ELSE HSet(h1, "Authorization", cred)

Init ==
    /\ services = InitialSet
    /\ proxyBackend = InitialSet
    /\ freebieDb = [ n \in ServiceNames |-> [ ip \in RemoteIPs |-> 0 ] ]
    /\ reqs = [ i \in Slots |-> Idle ]
    /\ installed = InitialSet
    /\ anonCount = [ ip \in RemoteIPs |-> 0 ]
    /\ quotaErr = [ ip \in RemoteIPs |-> FALSE ]
    /\ lastErr = 0

(***************************************************************************)
(* The http server accepts a request and starts ServeHTTP for it.          *)
(***************************************************************************)
Start(i, inputs) ==
    /\ reqs[i].pc = "idle"
    /\ \E in \in inputs :
         /\ anonTotal < MaxAnon
         /\ reqs' = [ reqs EXCEPT ![i] =
                       [ Idle EXCEPT !.pc = "begin", !.Method = in.method,
                                     !.Host = in.host, !.Path = in.path,
                                     !.Header = requestHeader(in.ct, in.cred),
                                     !.RemoteIP = in.ip,
                                     !.instAtStart = installed ] ]
    /\ UNCHANGED << lastErr, services, proxyBackend, freebieDb, installed, anonCount, quotaErr >>

(***************************************************************************)
(* ServeHTTP, an OPTIONS request: the CORS headers and a direct response.  *)
(***************************************************************************)
optionsResponse(w, rHeader) ==
    sendDirectResponse([ w EXCEPT !.hdr = addCorsHeaders(w.hdr) ], rHeader,
                       StatusOK, "")

ServeOptions(i) ==
    /\ reqs[i].pc = "begin"
    /\ reqs[i].Method = "OPTIONS"
    /\ reqs' = [ reqs EXCEPT ![i].w = optionsResponse(@, reqs[i].Header),
                             ![i].direct = Direct(StatusOK, ""),
                             ![i].pc = "done" ]
    /\ UNCHANGED << lastErr, services, proxyBackend, freebieDb, installed, anonCount,
                    quotaErr >>

(***************************************************************************)
(* ServeHTTP, any other request: matchService on p.services; a request     *)
(* that matches no service goes to the static file server.                 *)
(***************************************************************************)
Match(i) ==
    /\ reqs[i].pc = "begin"
    /\ reqs[i].Method # "OPTIONS"
    /\ LET target == matchService(reqs[i].Host, reqs[i].Path, ServiceSets[services])
       IN  IF target = NoService
           THEN \E found \in BOOLEAN :
                  reqs' = [ reqs EXCEPT ![i].regSeen = services,
                                        ![i].nMatch = @ + 1,
                                        ![i].nStatic = @ + 1,
                                        ![i].w = staticServer(@, found),
                                        ![i].pc = "done" ]
           ELSE reqs' = [ reqs EXCEPT ![i].regSeen = services,
                                      ![i].nMatch = @ + 1,
                                      ![i].target = target,
                                      ![i].pc = "auth" ]
    /\ UNCHANGED << lastErr, services, proxyBackend, freebieDb, installed, anonCount,
                    quotaErr >>

(***************************************************************************)
(* ServeHTTP: the auth level of the target and, for the levels on and      *)
(* freebie, the call of the authenticator.                                 *)
(***************************************************************************)
Auth(i) ==
    /\ reqs[i].pc = "auth"
    /\ LET r == reqs[i]
           level == AuthRequired(r.target, r.Path)
           ok == Accept(r.Header, r.target.Name)
           next == authNext(level, ok)
       IN  /\ reqs' = [ reqs EXCEPT
                 ![i].authLevel = level,
                 ![i].accept = IF needsAccept(level)
                               THEN (IF ok THEN "yes" ELSE "no") ELSE "-",
                 ![i].nAccept = IF needsAccept(level) THEN @ + 1 ELSE @,
                 ![i].ord = IF next = "canpass"
                            THEN anonCount[r.RemoteIP] + 1 ELSE @,
                 ![i].pc = next ]
           /\ anonCount' = IF next = "canpass"
                           THEN [ anonCount EXCEPT ![r.RemoteIP] = @ + 1 ]
                           ELSE anonCount
    /\ UNCHANGED << lastErr, services, proxyBackend, freebieDb, installed, quotaErr >>

(***************************************************************************)
(* ServeHTTP, level freebie without a valid credential: CanPass.           *)
(***************************************************************************)
QueryFreebie(i) ==
    /\ reqs[i].pc = "canpass"
    /\ LET r == reqs[i] IN
       \E err \in BOOLEAN :
         IF err
         THEN /\ reqs' = [ reqs EXCEPT
                    ![i].nCanPass = @ + 1,
                    ![i].canPass = "err",
                    ![i].w = sendDirectResponse(@, r.Header,
                                StatusInternalServerError, "freebie DB failure"),
                    ![i].direct = Direct(StatusInternalServerError,
                                         "freebie DB failure"),
                    ![i].pc = "done" ]
              /\ quotaErr' = [ quotaErr EXCEPT ![r.RemoteIP] = TRUE ]
         ELSE /\ reqs' = [ reqs EXCEPT
                    ![i].nCanPass = @ + 1,
                    ![i].canPass = IF CanPass(freebieDb[r.target.Name][r.RemoteIP])
                                   THEN "yes" ELSE "no",
                    ![i].pc = canPassNext(CanPass(freebieDb[r.target.Name][r.RemoteIP])) ]
              /\ UNCHANGED quotaErr
    /\ UNCHANGED << lastErr, services, proxyBackend, freebieDb, installed, anonCount >>

\* a slip: the error of TallyFreebie is logged and the request goes on
TallyErrGoesOn(i) ==
    /\ reqs[i].pc = "tally"
    /\ \E err \in BOOLEAN :
         /\ reqs' = [ reqs EXCEPT ![i].nTally = @ + 1,
                                  ![i].tally = IF err THEN "err" ELSE "ok",
                                  ![i].pc = "forward" ]
         /\ quotaErr' = IF err THEN [ quotaErr EXCEPT ![reqs[i].RemoteIP] = TRUE ]
                        ELSE quotaErr
         /\ freebieDb' = IF err THEN freebieDb
                         ELSE [ freebieDb EXCEPT
                                  ![reqs[i].target.Name][reqs[i].RemoteIP] =
                                     TallyFreebie(@) ]
    /\ UNCHANGED << lastErr, services, proxyBackend, installed, anonCount >>

(***************************************************************************)
(* ServeHTTP, level freebie, CanPass returned true: TallyFreebie.          *)
(***************************************************************************)
Tally(i) ==
    /\ reqs[i].pc = "tally"
    /\ LET r == reqs[i] IN
       \E err \in BOOLEAN :
         IF err
         THEN /\ reqs' = [ reqs EXCEPT
                    ![i].nTally = @ + 1,
                    ![i].tally = "err",
                    ![i].w = sendDirectResponse(@, r.Header,
                                StatusInternalServerError, "freebie DB failure"),
                    ![i].direct = Direct(StatusInternalServerError,
                                         "freebie DB failure"),
                    ![i].pc = "done" ]
              /\ quotaErr' = [ quotaErr EXCEPT ![r.RemoteIP] = TRUE ]
              /\ UNCHANGED freebieDb
         ELSE /\ reqs' = [ reqs EXCEPT ![i].nTally = @ + 1, ![i].tally = "ok",
                                       ![i].pc = "forward" ]
              /\ freebieDb' = [ freebieDb EXCEPT ![r.target.Name][r.RemoteIP] =
                                   TallyFreebie(@) ]
              /\ UNCHANGED quotaErr
    /\ UNCHANGED << lastErr, services, proxyBackend, installed, anonCount >>

(***************************************************************************)
(* ServeHTTP calls handlePaymentRequired: the CORS headers are added to    *)
(* r.Header, the authenticator is asked for a challenge.                   *)
(***************************************************************************)
Challenge(i) ==
    /\ reqs[i].pc = "challenge"
    /\ LET r == reqs[i]
           rHeader == addCorsHeaders(r.Header)
       IN  \E outcome \in FreshChallengeHeader(rHeader, r.target.Name, r.target.Price) :
           \E pick \in challengePicks(outcome.header) :
             LET res == handlePaymentRequired(r.w, rHeader, outcome, pick)
             IN  reqs' = [ reqs EXCEPT
                     ![i].Header = rHeader,
                     ![i].chal = outcome,
                     ![i].nFresh = @ + 1,
                     ![i].w = res.w,
                     ![i].direct = res.direct,
                     ![i].pc = IF res.panicked THEN "panicked" ELSE "done" ]
    /\ UNCHANGED << lastErr, services, proxyBackend, freebieDb, installed, anonCount,
                    quotaErr >>

(***************************************************************************)
(* ServeHTTP: p.proxyBackend.ServeHTTP(w, r) reads p.proxyBackend.         *)
(***************************************************************************)
Forward(i) ==
    /\ reqs[i].pc = "forward"
    /\ reqs' = [ reqs EXCEPT ![i].backendSeen = proxyBackend,
                             ![i].nBackend = @ + 1,
                             ![i].pc = "director" ]
    /\ UNCHANGED << lastErr, services, proxyBackend, freebieDb, installed, anonCount,
                    quotaErr >>

(***************************************************************************)
(* The reverse proxy calls the director, which matches the request on      *)
(* p.services again, and sends the request to the backend.                 *)
(***************************************************************************)
Director(i) ==
    /\ reqs[i].pc = "director"
    /\ \E outcome \in BackendOutcomes :
         reqs' = [ reqs EXCEPT
             ![i].dirSeen = services,
             ![i].dirTarget = matchService(reqs[i].Host, reqs[i].Path,
                                           ServiceSets[services]),
             ![i].out = director(reqs[i].Host, reqs[i].Path, reqs[i].Header,
                                 ServiceSets[services]),
             ![i].w = roundTrip(@, outcome),
             ![i].pc = "done" ]
    /\ UNCHANGED << lastErr, services, proxyBackend, freebieDb, installed, anonCount,
                    quotaErr >>

(***************************************************************************)
(* ServeHTTP has returned (or panicked): the goroutine ends.               *)
(***************************************************************************)
Finish(i) ==
    /\ reqs[i].pc \in { "done", "panicked" }
    /\ reqs' = [ reqs EXCEPT ![i] = Idle ]
    /\ UNCHANGED << lastErr, services, proxyBackend, freebieDb, installed, anonCount,
                    quotaErr >>

(***************************************************************************)
(* UpdateServices(ServiceSets[s]): on success a new reverse proxy, with a  *)
(* transport of the new certificate pool, is stored in p.proxyBackend.     *)
(***************************************************************************)
updateFails(set) == prepareServicesFails(set) \/ certPool(set).err

\* the sets of the model UpdateServices returns an error for
FailingSets == { s \in SetIds : updateFails(ServiceSets[s]) }

\* a slip: a successful UpdateServices also replaces p.services, under the
\* requests that are being served
UpdateServicesSwap(s) ==
    /\ IF s \in FailingSets
       THEN UNCHANGED << services, proxyBackend, installed, reqs >>
       ELSE /\ services' = s
            /\ proxyBackend' = s
            /\ installed' = s
            /\ reqs' = [ i \in Slots |->
                           IF reqs[i].pc = "idle" THEN reqs[i]
                           ELSE [ reqs[i] EXCEPT !.updated = TRUE ] ]
    /\ UNCHANGED << freebieDb, anonCount, quotaErr >>

UpdateServices(s) ==
    /\ IF s \in FailingSets
       THEN UNCHANGED << proxyBackend, installed, reqs >>
       ELSE /\ proxyBackend' = s
            /\ installed' = s
            /\ reqs' = [ i \in Slots |->
                           IF reqs[i].pc = "idle" THEN reqs[i]
                           ELSE [ reqs[i] EXCEPT !.updated = TRUE ] ]
    /\ UNCHANGED << services, freebieDb, anonCount, quotaErr >>

\* a caller that drops the result of UpdateServices
Reconfigure(s) == UpdateServices(s) /\ UNCHANGED lastErr

\* a caller that keeps the result of UpdateServices
ReconfigureChecked(s) ==
    /\ UpdateServices(s)
    /\ lastErr' = IF s \in FailingSets THEN s ELSE 0

ServeSteps ==
    \/ \E i \in Slots : ServeOptions(i)
    \/ \E i \in Slots : Match(i)
    \/ \E i \in Slots : Auth(i)
    \/ \E i \in Slots : QueryFreebie(i)
    \/ \E i \in Slots : Tally(i)
    \/ \E i \in Slots : Challenge(i)
    \/ \E i \in Slots : Forward(i)
    \/ \E i \in Slots : Director(i)
    \/ \E i \in Slots : Finish(i)

Steps == ServeSteps \/ \E s \in SetIds : Reconfigure(s)

(***************************************************************************)
(* Requests interact with each other through the freebie database only.    *)
(* Spec: every request a client can send, one request in flight at a       *)
(* time, UpdateServices at any point of it.                                *)
(***************************************************************************)
StartAlone(i) ==
    /\ \A j \in Slots : reqs[j].pc = "idle"
    /\ i = 1
    /\ Start(i, Inputs)

Next == (\E i \in Slots : StartAlone(i)) \/ Steps

Spec == Init /\ [][Next]_vars

(***************************************************************************)
(* SpecConc: requests that run concurrently, UpdateServices at any point.  *)
(***************************************************************************)
StartConc(i) == Start(i, ConcInputs)

NextConc == (\E i \in Slots : StartConc(i)) \/ Steps

SpecConc == Init /\ [][NextConc]_vars

(***************************************************************************)
(* SpecUpd: one request in flight at a time, of one remote IP and without  *)
(* a content type; the caller of UpdateServices keeps the error returned.  *)
(***************************************************************************)
StartUpd(i) ==
    /\ \A j \in Slots : reqs[j].pc = "idle"
    /\ i = 1
    /\ Start(i, UpdInputs)

NextUpd ==
    \/ \E i \in Slots : StartUpd(i)
    \/ ServeSteps
    \/ \E s \in SetIds : ReconfigureChecked(s)

SpecUpd == Init /\ [][NextUpd]_vars

(***************************************************************************)
(* Properties.                                                             *)
(***************************************************************************)
InFlight(r) == r.pc # "idle"
Terminal(r) == r.pc \in { "done", "panicked" }
Forwarded(r) == r.nBackend > 0
\* the registry a request was matched against
Registry(r) == ServiceSets[r.regSeen]

\* The services of a list that match a host and a path, by the rule of the
\* router: the host expression matches and the path expression is empty or
\* matches.
MatchingEntries(reg, host, path) ==
    { j \in 1..Len(reg) :
        /\ MatchString(reg[j].HostRegexp, host)
        /\ reg[j].PathRegexp = EmptyRe \/ MatchString(reg[j].PathRegexp, path) }

FirstOf(M) == CHOOSE j \in M : \A k \in M : j <= k

\* the response holds every header of the challenge with its list of values
CarriesChallenge(r) ==
    \A n \in DOMAIN r.chal.header : HValues(r.w.hdr, n) = r.chal.header[n]

\* C1: after UpdateServices returned nil for a service set that differs from
\* the set the proxy was built with, a request accepted afterwards (and with
\* no other successful update since) is matched against that set, in
\* ServeHTTP and in the director.
C1_MatchedAgainstInstalled ==
    \A i \in Slots :
      LET r == reqs[i] IN
        ( /\ InFlight(r)
          /\ ~r.updated
          /\ ServiceSets[r.instAtStart] # ServiceSets[InitialSet] )
        => /\ r.regSeen # 0 => ServiceSets[r.regSeen] = ServiceSets[r.instAtStart]
           /\ r.dirSeen # 0 => ServiceSets[r.dirSeen] = ServiceSets[r.instAtStart]

\* C2: a request uses one snapshot: the service set it is matched against,
\* the set whose reverse proxy (transport, certificate pool) forwards it and
\* the set the director matches it against are the same set.
C2_SingleSnapshot ==
    \A i \in Slots :
      LET r == reqs[i] IN
        /\ r.backendSeen # 0 => ServiceSets[r.backendSeen] = ServiceSets[r.regSeen]
        /\ r.dirSeen # 0 => ServiceSets[r.dirSeen] = ServiceSets[r.regSeen]

\* C3: a request matched to a service of level on: when Accept returns false
\* (and the authenticator returns a challenge) the response is a 402 that
\* carries the challenge headers, and the request is not forwarded; when
\* Accept returns true the request is forwarded.
C3_PaidDecision ==
    \A i \in Slots :
      LET r == reqs[i] IN
        (Terminal(r) /\ r.authLevel = "on")
        => /\ (r.accept = "no" /\ ~r.chal.err)
                => /\ r.w.status = StatusPaymentRequired
                   /\ CarriesChallenge(r)
                   /\ ~Forwarded(r)
           /\ r.accept = "yes" => Forwarded(r)

\* C4: requests one at a time, a freebie service with FreebieCount freebies
\* per remote IP, a freebie database and an authenticator that return no
\* error: the first FreebieCount requests of an IP without a valid credential
\* are forwarded and tallied once each, the next one gets a 402 and is not
\* forwarded.
C4_FreeQuotaExact ==
    \A i \in Slots :
      LET r == reqs[i] IN
        (Terminal(r) /\ r.ord > 0 /\ ~quotaErr[r.RemoteIP] /\ ~r.chal.err)
        => /\ r.ord <= FreebieCount
                => /\ Forwarded(r)
                   /\ r.nTally = 1
                   /\ freebieDb[r.target.Name][r.RemoteIP] = r.ord
           /\ r.ord = FreebieCount + 1
                => /\ r.w.status = StatusPaymentRequired
                   /\ ~Forwarded(r)

\* C5: on a freebie service a request the authenticator accepts is forwarded
\* and the freebie database is not touched: neither CanPass nor TallyFreebie
\* is called, whatever is left of the freebies of its remote IP.
C5_CredentialSkipsQuota ==
    \A i \in Slots :
      LET r == reqs[i] IN
        (r.authLevel = "freebie" /\ r.accept = "yes")
        => /\ r.nCanPass = 0
           /\ r.nTally = 0
           /\ r.nFresh = 0
           /\ r.pc \in { "forward", "director", "done" }
           /\ r.pc \in { "director", "done" } => r.nBackend = 1

\* C5, its case: an accepted request of an IP whose freebies are used up has
\* been forwarded.
C5_Witness ==
    \E i \in Slots :
      LET r == reqs[i] IN
        /\ r.pc = "done"
        /\ r.authLevel = "freebie"
        /\ r.accept = "yes"
        /\ Forwarded(r)
        /\ freebieDb[r.target.Name][r.RemoteIP] >= FreebieCount

\* C6: a request other than OPTIONS matched to a service without auth is
\* forwarded, with or without a credential; the authenticator (Accept,
\* FreshChallengeHeader) and the freebie database are not called.
C6_OpenForwards ==
    \A i \in Slots :
      LET r == reqs[i] IN
        (r.target # NoService /\ r.target.Auth = "off")
        => /\ r.nAccept = 0 /\ r.nFresh = 0
           /\ r.nCanPass = 0 /\ r.nTally = 0
           /\ r.pc \in { "auth", "forward", "director", "done" }
           /\ r.pc \in { "director", "done" } => r.nBackend = 1

\* C6, its case: a request without a valid credential to a service without
\* auth has been forwarded.
C6_Witness ==
    \E i \in Slots :
      LET r == reqs[i] IN
        /\ r.pc = "done"
        /\ r.target # NoService /\ r.target.Auth = "off"
        /\ HGet(r.Header, "Authorization") = ""
        /\ Forwarded(r)

\* C7: an OPTIONS request, whatever its host, path and headers, gets the
\* status 200, the CORS headers and an empty body, and reaches neither the
\* service matching nor the authenticator, the freebie database, the static
\* server or a backend.
C7_OptionsShortCircuit ==
    \A i \in Slots :
      LET r == reqs[i] IN
        (Terminal(r) /\ r.Method = "OPTIONS")
        => /\ r.w.status = StatusOK
           /\ HasCors(r.w.hdr)
           /\ r.w.body = << >>
           /\ r.nMatch = 0 /\ r.nAccept = 0 /\ r.nFresh = 0
           /\ r.nCanPass = 0 /\ r.nTally = 0
           /\ r.nStatic = 0 /\ r.nBackend = 0

\* C8: every response the proxy makes itself (the OPTIONS answer, the 402
\* challenge, the 500 of a freebie database or challenge failure) carries
\* the CORS headers.
C8_CorsOnDirectResponses ==
    \A i \in Slots :
      LET r == reqs[i] IN
        (r.pc = "done" /\ r.nBackend = 0 /\ r.nStatic = 0)
        => HasCors(r.w.hdr)

\* C9: matchService returns the first service, in the order of the list,
\* whose host expression matches the host and whose path expression is empty
\* or matches the path, never a later one, and not-found exactly when no
\* service matches; in ServeHTTP and in the director.
C9_FirstMatchWins ==
    \A i \in Slots :
      LET r == reqs[i] IN
        /\ r.nMatch > 0 =>
             LET M == MatchingEntries(Registry(r), r.Host, r.Path)
             IN  IF M = {} THEN r.target = NoService
                 ELSE r.target = Registry(r)[FirstOf(M)]
        /\ r.dirSeen # 0 =>
             LET M == MatchingEntries(ServiceSets[r.dirSeen], r.Host, r.Path)
             IN  IF M = {} THEN r.dirTarget = NoService
                 ELSE r.dirTarget = ServiceSets[r.dirSeen][FirstOf(M)]

\* C9, its case: two services match, the later one by a path expression,
\* and the request has the earlier one as its target.
C9_Witness ==
    \E i \in Slots :
      LET r == reqs[i] IN
        /\ r.nMatch > 0
        /\ LET M == MatchingEntries(Registry(r), r.Host, r.Path)
           IN  /\ Cardinality(M) >= 2
               /\ \E j \in M : j > FirstOf(M) /\ Registry(r)[j].PathRegexp # EmptyRe
               /\ r.target = Registry(r)[FirstOf(M)]

\* C10: a request other than OPTIONS that matches no service (no host
\* expression matches, or none of those with a matching host has a matching
\* path) is answered by the static server; the authenticator, the freebie
\* database and the reverse proxy are not called for it.
C10_UnmatchedGoesStatic ==
    \A i \in Slots :
      LET r == reqs[i] IN
        ( /\ r.nMatch > 0
          /\ MatchingEntries(Registry(r), r.Host, r.Path) = {} )
        => /\ r.pc = "done"
           /\ r.nStatic = 1
           /\ \E found \in BOOLEAN : r.w = staticServer(NewWriter, found)
           /\ r.nAccept = 0 /\ r.nFresh = 0
           /\ r.nCanPass = 0 /\ r.nTally = 0
           /\ r.nBackend = 0

\* C10, its case: a host expression matches, its path expression does not,
\* and the static server has answered.
C10_Witness ==
    \E i \in Slots :
      LET r == reqs[i] IN
        /\ r.pc = "done"
        /\ r.nStatic = 1
        /\ \E j \in 1..Len(Registry(r)) :
             MatchString(Registry(r)[j].HostRegexp, r.Host)
        /\ MatchingEntries(Registry(r), r.Host, r.Path) = {}
        /\ r.w.status = StatusNotFound

(***************************************************************************)
(* Properties of the direct responses and of the error paths.              *)
(***************************************************************************)
\* the request got a direct response (sendDirectResponse was called for it)
GotDirect(r) == r.direct # NoDirect
IsGrpcClient(r) == HasPrefixGrpc(HGet(r.Header, hdrContentType))
Contains(body, text) == text = "" \/ \E k \in 1..Len(body) : body[k] = text

\* C11: a direct response with status code c and message m: a client whose
\* Content-Type starts with application/grpc gets status c, the headers
\* Grpc-Status and Grpc-Message (the message m) and no body; any other
\* client gets status c, a plain-text body that contains m, and neither
\* Grpc-Status nor Grpc-Message.
C11_DirectResponseEncoding ==
    \A i \in Slots :
      LET r == reqs[i] IN
        GotDirect(r)
        => /\ r.w.status = r.direct.code
           /\ IsGrpcClient(r)
                => /\ HValues(r.w.hdr, "Grpc-Status") = << GrpcStatusInternal >>
                   /\ HValues(r.w.hdr, "Grpc-Message") = << r.direct.msg >>
                   /\ r.w.body = << >>
           /\ ~IsGrpcClient(r)
                => /\ HGet(r.w.hdr, "Content-Type") = "text/plain; charset=utf-8"
                   /\ r.w.body # << >>
                   /\ Contains(r.w.body, r.direct.msg)
                   /\ HValues(r.w.hdr, "Grpc-Status") = << >>
                   /\ HValues(r.w.hdr, "Grpc-Message") = << >>

\* C11, its case: a gRPC client has been answered payment required in the
\* header fields.
C11_Witness ==
    \E i \in Slots :
      /\ reqs[i].pc = "done"
      /\ IsGrpcClient(reqs[i])
      /\ reqs[i].direct = Direct(StatusPaymentRequired, "payment required")
      /\ HValues(reqs[i].w.hdr, "Grpc-Message") = << "payment required" >>

\* UpdateServices is handed a set it cannot install: the certificate file of
\* a service cannot be read or holds no certificate, or the preparation of
\* a service fails
CannotInstall(s) ==
    \E j \in 1..Len(ServiceSets[s]) :
      LET service == ServiceSets[s][j] IN
        \/ ~service.prepareOk
        \/ /\ service.TLSCertPath # ""
           /\ ~(FileReadable(service.TLSCertPath) /\ FileHasCert(service.TLSCertPath))

\* C12: a call of UpdateServices with a set it cannot install returns an
\* error and changes nothing: p.services, p.proxyBackend (the dispatcher and
\* its transport), the freebie counters and the requests in flight are what
\* they were before the call.
C12_FailedUpdateChangesNothing ==
    [][ \A s \in SetIds :
          (CannotInstall(s) /\ ReconfigureChecked(s))
          => /\ lastErr' = s
             /\ UNCHANGED << services, proxyBackend, installed, freebieDb, reqs >>
      ]_vars

\* C12, its case: the last call of UpdateServices failed on a certificate
\* file that cannot be read, and a request has since been forwarded by the
\* reverse proxy of the set installed before that call.
C12_Witness ==
    /\ lastErr # 0
    /\ ~FileReadable(ServiceSets[lastErr][1].TLSCertPath)
    /\ proxyBackend # InitialSet
    /\ \E i \in Slots :
         /\ reqs[i].pc = "done"
         /\ ~reqs[i].updated
         /\ reqs[i].backendSeen = proxyBackend
         /\ reqs[i].instAtStart = proxyBackend

\* the client has been told the message: in the body, or in Grpc-Message
Told(r, text) ==
    IF IsGrpcClient(r) THEN HValues(r.w.hdr, "Grpc-Message") = << text >>
    ELSE Contains(r.w.body, text)

\* the request ended in a direct response of status 500 with the message
InternalError(r, text) ==
    /\ r.pc = "done"
    /\ r.direct = Direct(StatusInternalServerError, text)
    /\ r.w.status = StatusInternalServerError
    /\ Told(r, text)
    /\ ~Forwarded(r)

\* C13, as the claim states it: on a freebie service, without a valid
\* credential, an error of CanPass is answered with status 500 and the
\* message "quota lookup failure", TallyFreebie is not called and the request
\* is not forwarded; an error of TallyFreebie after CanPass returned true is
\* answered with status 500 and the request is not forwarded.
C13_QuotaLookupFailure ==
    \A i \in Slots :
      LET r == reqs[i] IN
        /\ r.canPass = "err"
             => /\ InternalError(r, "quota lookup failure")
                /\ r.nTally = 0
        /\ r.tally = "err"
             => /\ r.pc = "done"
                /\ r.w.status = StatusInternalServerError
                /\ ~Forwarded(r)

\* C13, amended: the same with the message the code sends, "freebie DB
\* failure", for an error of CanPass and for an error of TallyFreebie alike.
C13_FreebieDbFailure ==
    \A i \in Slots :
      LET r == reqs[i] IN
        /\ r.canPass = "err"
             => /\ InternalError(r, "freebie DB failure")
                /\ r.nTally = 0
                /\ r.authLevel = "freebie" /\ r.accept = "no"
        /\ r.tally = "err"
             => /\ InternalError(r, "freebie DB failure")
                /\ r.canPass = "yes"
                /\ r.nTally = 1

\* C13, its case: a request whose CanPass returned true has been answered
\* 500 after TallyFreebie returned an error.
C13_Witness ==
    \E i \in Slots :
      /\ reqs[i].tally = "err"
      /\ reqs[i].canPass = "yes"
      /\ reqs[i].w.status = StatusInternalServerError

\* C14: when FreshChallengeHeader returns an error the request is answered
\* with status 500 and the message "challenge failure", never with 402; no
\* challenge header is set on the response, FreshChallengeHeader was called
\* once, and the request is not forwarded.
C14_ChallengeFailure ==
    \A i \in Slots :
      LET r == reqs[i] IN
        r.chal.err
        => /\ InternalError(r, "challenge failure")
           /\ r.w.status # StatusPaymentRequired
           /\ HValues(r.w.hdr, "WWW-Authenticate") = << >>
           /\ r.nFresh = 1
           /\ r.nBackend = 0

\* C14, its case: a request to a paid service without a valid credential
\* has been answered 500 after the authenticator failed to make a challenge.
C14_Witness ==
    \E i \in Slots :
      /\ reqs[i].chal.err
      /\ reqs[i].authLevel = "on"
      /\ reqs[i].accept = "no"
      /\ reqs[i].w.status = StatusInternalServerError

\* C15: no handler ends without a response: when ServeHTTP has ended for a
\* request, a status has been written for it (by a direct response, by the
\* static file server or by the reverse proxy), also when the authenticator
\* returned a challenge header name with an empty list of values.
C15_EveryRequestAnswered ==
    \A i \in Slots :
      Terminal(reqs[i]) => reqs[i].w.status # NoStatus

\* C16: CanPass and TallyFreebie are two calls, and the calls of other
\* requests run between them.  A request is tallied and forwarded on the
\* answer CanPass gave to it, whatever the counter has become since: the
\* counter of a remote IP can pass FreebieCount, by at most one for every
\* other request in flight.
C16_CheckThenTally ==
    /\ \A i \in Slots :
         reqs[i].nTally > 0 => reqs[i].canPass = "yes"
    /\ \A n \in ServiceNames : \A ip \in RemoteIPs :
         freebieDb[n][ip] <= FreebieCount + Cardinality(Slots) - 1

\* C16, its case: two requests of one remote IP without a valid credential
\* were both told by CanPass that the IP can pass, before the tally of
\* either landed; both were tallied and forwarded, and the counter of the
\* IP is above FreebieCount.
C16_Witness ==
    \E i \in Slots : \E j \in Slots \ { i } :
      /\ reqs[i].RemoteIP = reqs[j].RemoteIP
      /\ reqs[i].target = reqs[j].target
      /\ \A k \in { i, j } :
           /\ reqs[k].accept = "no"
           /\ reqs[k].canPass = "yes"
           /\ reqs[k].tally = "ok"
           /\ Forwarded(reqs[k])
      /\ freebieDb[reqs[i].target.Name][reqs[i].RemoteIP] > FreebieCount

\* C17: the reverse proxy is called for a request only after the decision
\* to forward it: for a service of level on after Accept returned true; for
\* a service of level freebie after Accept returned true, or after CanPass
\* returned true and TallyFreebie returned no error; and never for a request
\* that was answered directly (402 or 500).
C17_ForwardOnlyAfterDecision ==
    \A i \in Slots :
      LET r == reqs[i] IN
        /\ Forwarded(r)
             => /\ r.authLevel \in AuthLevels
                /\ r.authLevel = "on" => r.accept = "yes"
                /\ r.authLevel = "freebie"
                     => \/ r.accept = "yes"
                        \/ r.accept = "no" /\ r.canPass = "yes" /\ r.tally = "ok"
                /\ ~GotDirect(r)
                /\ r.nBackend = 1
        /\ r.pc \in { "forward", "director" }
             => r.w.status = NoStatus /\ ~GotDirect(r)

\* C17, its case: a request without a valid credential has been forwarded
\* to a freebie service after CanPass and TallyFreebie, and the backend
\* has answered it.
C17_Witness ==
    \E i \in Slots :
      /\ reqs[i].pc = "done"
      /\ Forwarded(reqs[i])
      /\ reqs[i].authLevel = "freebie"
      /\ reqs[i].accept = "no"
      /\ reqs[i].tally = "ok"
      /\ reqs[i].w.status = StatusOK

\* C18: when FreshChallengeHeader returns a header map and no error, the
\* request is answered 402 and the response holds, for every name of the
\* map, the list of values returned for it, in their order, whatever the
\* length of the list.
C18_ChallengeCopiedExactly ==
    \A i \in Slots :
      LET r == reqs[i] IN
        (Terminal(r) /\ r.nFresh > 0 /\ ~r.chal.err)
        => /\ r.w.status = StatusPaymentRequired
           /\ CarriesChallenge(r)

\* C19: the service the director matches a forwarded request to, and
\* rewrites the outgoing request for (address, protocol, added header
\* fields), is the service ServeHTTP matched the request to and whose auth
\* level it enforced, whatever calls of UpdateServices run in between.
C19_DirectorUsesEnforcedService ==
    \A i \in Slots :
      LET r == reqs[i] IN
        r.dirSeen # 0
        => /\ r.dirTarget = r.target
           /\ r.authLevel = AuthRequired(r.dirTarget, r.Path)
           /\ r.out.rewritten
           /\ r.out.Host = r.target.Address
           /\ r.out.Scheme = r.target.Protocol
           /\ \A n \in DOMAIN r.target.Headers :
                \E k \in 1..Len(HValues(r.out.Header, n)) :
                  HValues(r.out.Header, n)[k] = r.target.Headers[n]

\* C19, its case: UpdateServices installed another service set while the
\* request was being served, and the director has rewritten the request
\* for its target.
C19_Witness ==
    \E i \in Slots :
      /\ reqs[i].dirSeen # 0
      /\ reqs[i].updated
      /\ reqs[i].backendSeen # InitialSet
      /\ reqs[i].out.Host = reqs[i].target.Address

\* C20: TallyFreebie is called at most once for a request, and only after
\* Accept returned false and CanPass returned true for that request; a
\* request that is answered 402, or for which a challenge is asked, has not
\* called it and so has left the freebie counters as they were.
C20_TallyOnlyWhenPassing ==
    \A i \in Slots :
      LET r == reqs[i] IN
        /\ r.nTally <= 1
        /\ r.nTally > 0 <=> r.tally # "-"
        /\ r.nTally > 0
             => r.authLevel = "freebie" /\ r.accept = "no" /\ r.canPass = "yes"
        /\ (r.direct.code = StatusPaymentRequired \/ r.pc = "challenge"
               \/ r.nFresh > 0)
             => r.nTally = 0
        /\ r.pc = "tally" => r.nTally = 0

\* C20, its case: a request without a valid credential to a freebie service
\* whose freebies are used up has been answered 402 without a call of
\* TallyFreebie, and the counter of its remote IP is what it was.
C20_Witness ==
    \E i \in Slots :
      /\ reqs[i].pc = "done"
      /\ reqs[i].authLevel = "freebie"
      /\ reqs[i].canPass = "no"
      /\ reqs[i].w.status = StatusPaymentRequired
      /\ reqs[i].nTally = 0
      /\ freebieDb[reqs[i].target.Name][reqs[i].RemoteIP] = FreebieCount

====
